---- MODULE Spec2Model ----
(***************************************************************************)
(* Model of the Text2SQL agent (src/main.py): the intent router, the two   *)
(* safety checks, the SQL synthesizer with history reuse, the execution    *)
(* step and the feedback step, driven by run_sql_agent.                    *)
(*                                                                         *)
(* Strings are TLA+ strings; a character is a string of length 1.          *)
(* Regular expressions are syntax trees matched by the operator Ends,      *)
(* which computes, like a backtracking matcher explores, every offset at   *)
(* which a match starting at one of the given offsets can end.             *)
(***************************************************************************)
EXTENDS Integers, Sequences, FiniteSets, TLC

\* ------------------------------------------------------------------ bounds
MaxRequests == 2     \* requests served one after the other on the same store
MaxRows == 1         \* rows a statement over the products table returns
MaxExecTime == 1     \* clock ticks an execution takes
MaxPieces == 3       \* pieces of a string handed to sanitize_input on its own

\* -------------------------------------------------------------- characters
LowerChars ==
  {"a","b","c","d","e","f","g","h","i","j","k","l","m",
   "n","o","p","q","r","s","t","u","v","w","x","y","z"}

UpperChars ==
  {"A","B","C","D","E","F","G","H","I","J","K","L","M",
   "N","O","P","Q","R","S","T","U","V","W","X","Y","Z"}

DigitChars == {"0","1","2","3","4","5","6","7","8","9"}

SpaceChars == {" ", "\t", "\n", "\r"}

WordChars == LowerChars \cup UpperChars \cup DigitChars \cup {"_"}

UpperOf ==
  [c \in LowerChars |->
     CASE c = "a" -> "A" [] c = "b" -> "B" [] c = "c" -> "C" [] c = "d" -> "D"
       [] c = "e" -> "E" [] c = "f" -> "F" [] c = "g" -> "G" [] c = "h" -> "H"
       [] c = "i" -> "I" [] c = "j" -> "J" [] c = "k" -> "K" [] c = "l" -> "L"
       [] c = "m" -> "M" [] c = "n" -> "N" [] c = "o" -> "O" [] c = "p" -> "P"
       [] c = "q" -> "Q" [] c = "r" -> "R" [] c = "s" -> "S" [] c = "t" -> "T"
       [] c = "u" -> "U" [] c = "v" -> "V" [] c = "w" -> "W" [] c = "x" -> "X"
       [] c = "y" -> "Y" [] c = "z" -> "Z"]

CharAt(s, i) == SubSeq(s, i, i)

Rest(s, i) == SubSeq(s, i, Len(s))

\* str.upper(), the string folded half by half
RECURSIVE upper(_)
upper(s) ==
  IF s = "" THEN ""
  ELSE IF Len(s) = 1 THEN (IF s \in LowerChars THEN UpperOf[s] ELSE s)
  ELSE LET half == Len(s) \div 2
       IN upper(SubSeq(s, 1, half)) \o upper(SubSeq(s, half + 1, Len(s)))

\* str.lower() of one character, and of a string
LowerOfChar(c) ==
  IF c \in UpperChars THEN CHOOSE l \in LowerChars : UpperOf[l] = c ELSE c

RECURSIVE lower(_)
lower(s) ==
  IF s = "" THEN "" ELSE LowerOfChar(CharAt(s, 1)) \o lower(Rest(s, 2))

\* str.strip(): whitespace removed at both ends
RECURSIVE lstrip(_)
lstrip(s) ==
  IF s # "" /\ CharAt(s, 1) \in SpaceChars THEN lstrip(Rest(s, 2)) ELSE s

RECURSIVE rstrip(_)
rstrip(s) ==
  IF s # "" /\ CharAt(s, Len(s)) \in SpaceChars
  THEN rstrip(SubSeq(s, 1, Len(s) - 1)) ELSE s

strip(s) == rstrip(lstrip(s))

\* str.rstrip(';')
RECURSIVE rstrip_semicolon(_)
rstrip_semicolon(s) ==
  IF s # "" /\ CharAt(s, Len(s)) = ";"
  THEN rstrip_semicolon(SubSeq(s, 1, Len(s) - 1)) ELSE s

startswith(s, p) == Len(s) >= Len(p) /\ SubSeq(s, 1, Len(p)) = p

\* the offsets 0..Len(s)-Len(p) at which p occurs in s
Occurrences(s, p) ==
  {i \in 0..(Len(s) - Len(p)) : SubSeq(s, i + 1, i + Len(p)) = p}

Contains(s, p) == Occurrences(s, p) # {}

\* str.replace(old, new): leftmost non-overlapping occurrences, old # ""
RECURSIVE replace(_, _, _)
replace(s, old, new) ==
  IF Len(s) < Len(old) THEN s
  ELSE IF SubSeq(s, 1, Len(old)) = old
       THEN new \o replace(Rest(s, Len(old) + 1), old, new)
       ELSE CharAt(s, 1) \o replace(Rest(s, 2), old, new)

\* ------------------------------------------------------ regular expressions
\* Syntax trees of the patterns of src/main.py.
Lit(str)   == <<"lit", str>>       \* a literal string
Cls(set)   == <<"cls", set>>       \* one character of a class: \w \s \d [...]
AnyChar    == <<"any">>            \* . (any character but a newline)
Bol        == <<"bol">>            \* ^
Eol        == <<"eol">>            \* $
Cat(rs)    == <<"cat", rs>>        \* r1 r2 ... rn
Alt(rs)    == <<"alt", rs>>        \* r1 | r2 | ... | rn
Star(r)    == <<"star", r>>        \* r*  (and r*?: the laziness changes no verdict)
Plus(r)    == <<"plus", r>>        \* r+
Opt(r)     == <<"opt", r>>         \* r?

\* Ends(r, s, I): the offsets where a match of r in s that starts at an
\* offset of I can end. s is matched under re.IGNORECASE: the caller folds
\* s with upper, and literals are folded here.
RECURSIVE Ends(_, _, _)
RECURSIVE EndsCat(_, _, _, _)
RECURSIVE EndsStar(_, _, _)
Ends(r, s, I) ==
  CASE r[1] = "lit" ->
         LET l == upper(r[2])
         IN {i + Len(l) : i \in {j \in I : j + Len(l) <= Len(s)
                                     /\ SubSeq(s, j + 1, j + Len(l)) = l}}
    [] r[1] = "cls" ->
         {i + 1 : i \in {j \in I : j < Len(s) /\ CharAt(s, j + 1) \in r[2]}}
    [] r[1] = "any" ->
         {i + 1 : i \in {j \in I : j < Len(s) /\ CharAt(s, j + 1) # "\n"}}
    [] r[1] = "bol" -> I \cap {0}
    [] r[1] = "eol" ->
         {i \in I : i = Len(s) \/ (i = Len(s) - 1 /\ CharAt(s, Len(s)) = "\n")}
    [] r[1] = "cat" -> EndsCat(r[2], 1, s, I)
    [] r[1] = "alt" -> UNION {Ends(r[2][k], s, I) : k \in 1..Len(r[2])}
    [] r[1] = "star" -> EndsStar(r[2], s, I)
    [] r[1] = "plus" -> EndsStar(r[2], s, Ends(r[2], s, I))
    [] r[1] = "opt" -> I \cup Ends(r[2], s, I)

EndsCat(rs, k, s, I) ==
  IF k > Len(rs) \/ I = {} THEN I
  ELSE EndsCat(rs, k + 1, s, Ends(rs[k], s, I))

EndsStar(r, s, I) ==
  LET J == I \cup Ends(r, s, I)
  IN IF J = I THEN I ELSE EndsStar(r, s, J)

\* re.search(pattern, s, re.IGNORECASE) is not None
re_search(r, s) == Ends(r, upper(s), 0..Len(s)) # {}

\* re.match(pattern, s, re.IGNORECASE) is not None
re_match(r, s) == Ends(r, upper(s), {0}) # {}

\* -------------------------------------------------- patterns of the policy
ws1 == Plus(Cls(SpaceChars))        \* \s+
ws0 == Star(Cls(SpaceChars))        \* \s*
word1 == Plus(Cls(WordChars))       \* \w+ and [\w]+
rest0 == Star(AnyChar)              \* .*

Pat(src, re) == [src |-> src, re |-> re]

\* variant: sql_patterns without the family products|stock|price
sql_patterns_no_products ==
  << Pat("(?i)(show|list|find|search|sort)",
         Alt(<<Lit("show"), Lit("list"), Lit("find"), Lit("search"), Lit("sort")>>)),
     Pat("(?i)(how many|total|average)",
         Alt(<<Lit("how many"), Lit("total"), Lit("average")>>)),
     Pat("(?i)(sql|query|database)",
         Alt(<<Lit("sql"), Lit("query"), Lit("database")>>)),
     Pat("(?i)(highest|lowest|maximum|minimum)",
         Alt(<<Lit("highest"), Lit("lowest"), Lit("maximum"), Lit("minimum")>>)) >>

\* IntentAnalyzer.sql_patterns
sql_patterns ==
  << Pat("(?i)(show|list|find|search|sort)",
         Alt(<<Lit("show"), Lit("list"), Lit("find"), Lit("search"), Lit("sort")>>)),
     Pat("(?i)(products|stock|price)",
         Alt(<<Lit("products"), Lit("stock"), Lit("price")>>)),
     Pat("(?i)(how many|total|average)",
         Alt(<<Lit("how many"), Lit("total"), Lit("average")>>)),
     Pat("(?i)(sql|query|database)",
         Alt(<<Lit("sql"), Lit("query"), Lit("database")>>)),
     Pat("(?i)(highest|lowest|maximum|minimum)",
         Alt(<<Lit("highest"), Lit("lowest"), Lit("maximum"), Lit("minimum")>>)) >>

\* IntentAnalyzer.chat_patterns
chat_patterns ==
  << Pat("(?i)(hello|hi|how are you)",
         Alt(<<Lit("hello"), Lit("hi"), Lit("how are you")>>)),
     Pat("(?i)(chat|talk|conversation)",
         Alt(<<Lit("chat"), Lit("talk"), Lit("conversation")>>)),
     Pat("(?i)(what are you doing|who are you)",
         Alt(<<Lit("what are you doing"), Lit("who are you")>>)),
     Pat("(?i)(thank you|thanks)",
         Alt(<<Lit("thank you"), Lit("thanks")>>)) >>

\* SQLAnalysisAgent.malicious_prompts_patterns (a list: tried in this order)
malicious_prompts_patterns ==
  << Pat("(?i)(drop|delete|truncate|alter)\\s+table",
         Cat(<<Alt(<<Lit("drop"), Lit("delete"), Lit("truncate"), Lit("alter")>>),
               ws1, Lit("table")>>)),
     Pat("(?i)system\\s+command",
         Cat(<<Lit("system"), ws1, Lit("command")>>)),
     Pat("(?i)(hack|exploit|attack)",
         Alt(<<Lit("hack"), Lit("exploit"), Lit("attack")>>)),
     Pat("(?i)(union\\s+select|join\\s+select)",
         Alt(<<Cat(<<Lit("union"), ws1, Lit("select")>>),
               Cat(<<Lit("join"), ws1, Lit("select")>>)>>)),
     Pat("(?i)(--|;|/\\*|\\*/)",
         Alt(<<Lit("--"), Lit(";"), Lit("/*"), Lit("*/")>>)),
     Pat("(?i)(xp_cmdshell|exec\\s+sp)",
         Alt(<<Lit("xp_cmdshell"), Cat(<<Lit("exec"), ws1, Lit("sp")>>)>>)),
     Pat("(?i)(insert\\s+into|update\\s+set)",
         Alt(<<Cat(<<Lit("insert"), ws1, Lit("into")>>),
               Cat(<<Lit("update"), ws1, Lit("set")>>)>>)),
     Pat("(?i)password|username|credential",
         Alt(<<Lit("password"), Lit("username"), Lit("credential")>>)),
     Pat("(?i)grant|revoke|permission",
         Alt(<<Lit("grant"), Lit("revoke"), Lit("permission")>>)),
     Pat("(?i)backup|restore|dump",
         Alt(<<Lit("backup"), Lit("restore"), Lit("dump")>>)) >>

\* variant: safe_prompt_patterns without the products family
safe_prompt_patterns_short ==
  << Pat("(?i)(show|list|find|search|sort)",
         Alt(<<Lit("show"), Lit("list"), Lit("find"), Lit("search"), Lit("sort")>>)),
     Pat("(?i)(how many|total|average)",
         Alt(<<Lit("how many"), Lit("total"), Lit("average")>>)),
     Pat("(?i)(highest|lowest|maximum|minimum)",
         Alt(<<Lit("highest"), Lit("lowest"), Lit("maximum"), Lit("minimum")>>)) >>

\* SQLAnalysisAgent.safe_prompt_patterns
safe_prompt_patterns ==
  << Pat("(?i)(show|list|find|search|sort)",
         Alt(<<Lit("show"), Lit("list"), Lit("find"), Lit("search"), Lit("sort")>>)),
     Pat("(?i)(products|stock|price)",
         Alt(<<Lit("products"), Lit("stock"), Lit("price")>>)),
     Pat("(?i)(how many|total|average)",
         Alt(<<Lit("how many"), Lit("total"), Lit("average")>>)),
     Pat("(?i)(highest|lowest|maximum|minimum)",
         Alt(<<Lit("highest"), Lit("lowest"), Lit("maximum"), Lit("minimum")>>)) >>

\* SQLAnalysisAgent.dangerous_patterns (a Python set: iterated in no fixed order)
dangerous_patterns ==
  { Pat(";.*", Cat(<<Lit(";"), rest0>>)),
    Pat("--.*", Cat(<<Lit("--"), rest0>>)),
    Pat("/\\*.*?\\*/", Cat(<<Lit("/*"), rest0, Lit("*/")>>)),
    Pat("xp_.*", Cat(<<Lit("xp_"), rest0>>)),
    Pat("exec.*", Cat(<<Lit("exec"), rest0>>)),
    Pat("UNION.*", Cat(<<Lit("UNION"), rest0>>)),
    Pat("DROP.*", Cat(<<Lit("DROP"), rest0>>)),
    Pat("DELETE.*", Cat(<<Lit("DELETE"), rest0>>)),
    Pat("UPDATE.*", Cat(<<Lit("UPDATE"), rest0>>)),
    Pat("ALTER.*", Cat(<<Lit("ALTER"), rest0>>)),
    Pat("TRUNCATE.*", Cat(<<Lit("TRUNCATE"), rest0>>)),
    Pat("INSERT.*", Cat(<<Lit("INSERT"), rest0>>)),
    Pat("GRANT.*", Cat(<<Lit("GRANT"), rest0>>)),
    Pat("REVOKE.*", Cat(<<Lit("REVOKE"), rest0>>)),
    Pat("SYSTEM.*", Cat(<<Lit("SYSTEM"), rest0>>)),
    Pat("INTO\\s+(?:OUTFILE|DUMPFILE).*",
        Cat(<<Lit("INTO"), ws1, Alt(<<Lit("OUTFILE"), Lit("DUMPFILE")>>), rest0>>)) }

\* the optional tails of the safe shapes
where_plain ==     \* (?:\s+WHERE\s+[\w\s><=]+)?
  Opt(Cat(<<ws1, Lit("WHERE"), ws1,
            Plus(Cls(WordChars \cup SpaceChars \cup {">", "<", "="}))>>))

where_quoted ==    \* (?:\s+WHERE\s+[\w\s><=\'\"]+)?
  Opt(Cat(<<ws1, Lit("WHERE"), ws1,
            Plus(Cls(WordChars \cup SpaceChars \cup {">", "<", "=", "'", "\""}))>>))

order_by ==        \* (?:\s+ORDER\s+BY\s+[\w\s,]+)?
  Opt(Cat(<<ws1, Lit("ORDER"), ws1, Lit("BY"), ws1,
            Plus(Cls(WordChars \cup SpaceChars \cup {","}))>>))

limit_n ==         \* (?:\s+LIMIT\s+\d+)?
  Opt(Cat(<<ws1, Lit("LIMIT"), ws1, Plus(Cls(DigitChars))>>))

\* ^SELECT\s+FN\s*\(\s*[\w]+\s*\)\s+FROM\s+[\w]+ WHERE-TAIL $
aggregate_shape(fn, arg, tail) ==
  Cat(<<Bol, Lit("SELECT"), ws1, Lit(fn), ws0, Lit("("), ws0, arg, ws0, Lit(")"),
        ws1, Lit("FROM"), ws1, word1, tail, Eol>>)

\* SQLAnalysisAgent.safe_patterns (a dict: its values in insertion order)
safe_patterns ==
  << \* SELECT
     Cat(<<Bol, Lit("SELECT"), ws1,
           Plus(Alt(<<Cls(WordChars \cup SpaceChars \cup {",", ".", "(", ")", "*"}),
                      Cls(SpaceChars)>>)),
           ws1, Lit("FROM"), ws1, word1, where_plain, order_by, limit_n, Eol>>),
     \* COUNT
     aggregate_shape("COUNT", Lit("*"), where_plain),
     \* AVG
     aggregate_shape("AVG", word1, where_plain),
     \* MAX, MIN, SUM
     aggregate_shape("MAX", word1, where_quoted),
     aggregate_shape("MIN", word1, where_quoted),
     aggregate_shape("SUM", word1, where_quoted) >>

\* SQLAnalysisAgent.allowed_tables
allowed_tables == {"products"}

\* --------------------------------------------------------------- the guards
any_search(patterns, s) ==
  \E k \in 1..Len(patterns) : re_search(patterns[k].re, s)

\* re.findall(r'FROM\s+(\w+)', s, re.IGNORECASE): the captured names of the
\* leftmost, non-overlapping matches, \w+ taking the longest run. s is
\* folded by the caller; i is the offset the scan resumes at.
RECURSIVE findall_from(_, _)
findall_from(s, i) ==
  LET starts == {j \in i..Len(s) :
                   Ends(Cat(<<Lit("FROM"), ws1, word1>>), s, {j}) # {}}
  IN IF starts = {} THEN <<>>
     ELSE LET j == CHOOSE m \in starts : \A n \in starts : m <= n
              a == Ends(Cat(<<Lit("FROM"), ws1>>), s, {j})
              \* \s+ is greedy and \w never matches a space: the name starts
              \* after the whole run of spaces and is the whole run of \w
              b == CHOOSE m \in a : \A n \in a : n <= m
              e == CHOOSE m \in Ends(word1, s, {b}) :
                     \A n \in Ends(word1, s, {b}) : n <= m
          IN <<SubSeq(s, b + 1, e)>> \o findall_from(s, e)

\* SQLAnalysisAgent.analyze_prompt_safety: <<is_safe, message>>
\* the index of the first pattern of the list that the prompt matches, or 0
first_malicious(prompt) ==
  LET hits == {k \in 1..Len(malicious_prompts_patterns) :
                 re_search(malicious_prompts_patterns[k].re, prompt)}
  IN IF hits = {} THEN 0 ELSE CHOOSE k \in hits : \A n \in hits : k <= n

\* variant: analyze_prompt_safety with the malicious-pattern loop left out
analyze_prompt_safety_no_malicious(prompt) ==
  IF prompt = "" \/ strip(prompt) = "" THEN <<FALSE, "Empty query">>
  ELSE IF ~any_search(safe_prompt_patterns, prompt)
  THEN <<FALSE, "Query does not contain safe patterns">>
  ELSE IF Len(prompt) > 500 THEN <<FALSE, "Query too long">>
  ELSE <<TRUE, "Query is safe">>

\* variant: analyze_prompt_safety refusing a prompt at the limit itself
analyze_prompt_safety_at_limit(prompt) ==
  IF prompt = "" \/ strip(prompt) = "" THEN <<FALSE, "Empty query">>
  ELSE IF first_malicious(prompt) # 0
  THEN <<FALSE, "Malicious pattern detected: "
                  \o malicious_prompts_patterns[first_malicious(prompt)].src>>
  ELSE IF ~any_search(safe_prompt_patterns, prompt)
  THEN <<FALSE, "Query does not contain safe patterns">>
  ELSE IF Len(prompt) >= 500 THEN <<FALSE, "Query too long">>
  ELSE <<TRUE, "Query is safe">>

analyze_prompt_safety(prompt) ==
  IF prompt = "" \/ strip(prompt) = "" THEN <<FALSE, "Empty query">>
  ELSE IF first_malicious(prompt) # 0
  THEN <<FALSE, "Malicious pattern detected: "
                  \o malicious_prompts_patterns[first_malicious(prompt)].src>>
  ELSE IF ~any_search(safe_prompt_patterns, prompt)
  THEN <<FALSE, "Query does not contain safe patterns">>
  ELSE IF Len(prompt) > 500 THEN <<FALSE, "Query too long">>
  ELSE <<TRUE, "Query is safe">>

\* SQLAnalysisAgent.sanitize_input
\* variant: sanitize_input dropping the dash pairs before the semicolons
sanitize_input_dashes_first(value) ==
  replace(replace(replace(value, "'", "''"), "--", ""), ";", "")

sanitize_input(value) ==
  replace(replace(replace(value, "'", "''"), ";", ""), "--", "")

\* SQLAnalysisAgent.validate_sql_safety: the set of <<is_safe, message>> it
\* can return (the dangerous patterns are a set, so which matching pattern
\* the message names is not fixed; every other outcome is a single pair)
first_unauthorized(tables) ==
  LET bad == {k \in 1..Len(tables) : lower(tables[k]) \notin allowed_tables}
  IN IF bad = {} THEN 0 ELSE CHOOSE k \in bad : \A n \in bad : k <= n

\* variant: validate_sql_safety answering True where it finds another verb
validate_sql_safety_verb_accepted(sql_query) ==
  IF sql_query = "" \/ strip(sql_query) = "" THEN {<<FALSE, "Empty query">>}
  ELSE LET q == upper(sql_query)
           hits == {p \in dangerous_patterns : re_search(p.re, q)}
           tables == findall_from(q, 0)
       IN IF ~startswith(strip(q), "SELECT")
          THEN {<<TRUE, "Only SELECT queries are allowed">>}
          ELSE IF hits # {}
          THEN {<<FALSE, "Dangerous pattern detected: " \o p.src>> : p \in hits}
          ELSE IF first_unauthorized(tables) # 0
          THEN {<<FALSE, "Accessing unauthorized table: "
                           \o tables[first_unauthorized(tables)]>>}
          ELSE IF \E k \in 1..Len(safe_patterns) : re_match(safe_patterns[k], q)
          THEN {<<TRUE, "Safe query">>}
          ELSE {<<FALSE, "Unsuitable query format">>}

\* variant: validate_sql_safety judging by one safe pattern, whichever it
\* tries first
validate_sql_safety_one_shape(sql_query) ==
  IF sql_query = "" \/ strip(sql_query) = "" THEN {<<FALSE, "Empty query">>}
  ELSE LET q == upper(sql_query)
           hits == {p \in dangerous_patterns : re_search(p.re, q)}
           tables == findall_from(q, 0)
       IN IF ~startswith(strip(q), "SELECT")
          THEN {<<FALSE, "Only SELECT queries are allowed">>}
          ELSE IF hits # {}
          THEN {<<FALSE, "Dangerous pattern detected: " \o p.src>> : p \in hits}
          ELSE IF first_unauthorized(tables) # 0
          THEN {<<FALSE, "Accessing unauthorized table: "
                           \o tables[first_unauthorized(tables)]>>}
          ELSE { IF re_match(safe_patterns[k], q)
                 THEN <<TRUE, "Safe query">>
                 ELSE <<FALSE, "Unsuitable query format">>
                 : k \in 1..Len(safe_patterns) }

validate_sql_safety(sql_query) ==
  IF sql_query = "" \/ strip(sql_query) = "" THEN {<<FALSE, "Empty query">>}
  ELSE LET q == upper(sql_query)
           hits == {p \in dangerous_patterns : re_search(p.re, q)}
           tables == findall_from(q, 0)
       IN IF ~startswith(strip(q), "SELECT")
          THEN {<<FALSE, "Only SELECT queries are allowed">>}
          ELSE IF hits # {}
          THEN {<<FALSE, "Dangerous pattern detected: " \o p.src>> : p \in hits}
          ELSE IF first_unauthorized(tables) # 0
          THEN {<<FALSE, "Accessing unauthorized table: "
                           \o tables[first_unauthorized(tables)]>>}
          ELSE IF \E k \in 1..Len(safe_patterns) : re_match(safe_patterns[k], q)
          THEN {<<TRUE, "Safe query">>}
          ELSE {<<FALSE, "Unsuitable query format">>}

\* ------------------------------------------------------ values and inputs
\* Python's None, SQL's NULL, and a raised exception in place of a reply
None == <<>>
Some(x) == <<x>>

\* the prompts submitted to run_sql_agent
Prompts ==
  { "", "  ", "hello", "tell me more",
    "show products", "list products", "it's the price",
    "query the database", "drop table products", "show products; --",
    "find the password" }

\* prompts put together from words that the patterns of analyze_intent
\* match, alone, together, or not at all: the inputs of RouterSpec
RouterWords ==
  { "show", "Stock", "SQL", "hello", "this", "Thanks", "talk", "who are you",
    "tell me", "more" }

RouterPrompts ==
  {"", "  ", "\n"} \cup RouterWords
     \cup {a \o " " \o b : a \in RouterWords, b \in RouterWords}

\* what the gateway can answer to the intent question (or it raises)
IntentReplies == {"SQL", " sql\n", "CHAT", "SQL."}

\* what the gateway can answer to the generation prompt (or it raises)
\* A TLA+ string cannot hold the grave accent of a markdown fence: it is
\* written ~ here, a character no other string of the model contains.
Fence == "~~~"

SqlCompletions ==
  { Fence \o "sql\nSELECT MAX(price) FROM products;\n" \o Fence,
    "SELECT (SELECT name FROM(users)) FROM products",
    "SELECT * FROM users",
    "DROP TABLE products",
    "" }

\* what the gateway can answer to the feedback prompt (or it raises)
FeedbackReplies == {"1. Yes 2. Yes 3. None", "1. No"}

\* the exceptions the store can raise on a statement
StoreErrors == {"database is locked"}

\* rows of query_history that exist before the first request
SeedRows ==
  << [natural_query |-> "please show products",
      generated_sql |-> Some("SELECT * FROM products"),
      execution_result |-> Some("2 rows"), created_at |-> 0],
     [natural_query |-> "list products and users",
      generated_sql |-> Some("SELECT * FROM users"),
      execution_result |-> Some("1 row"), created_at |-> 0] >>

SeedHistories == {<<>>, SeedRows}

\* ------------------------------------------------------------------- state
VARIABLES
  nreq,            \* requests submitted so far
  pc,              \* the step the current request is at
  topic,           \* natural_query, passed on as ev.topic
  intent,          \* result_dict of the intent workflow, or None
  intent_response, \* str(response) of analyze_intent's gateway call, or None
  sql_event,       \* sql_query of the SQLGenerationEvent, or None
  verdicts,        \* the safety verdicts given during this request, in order
  execution,       \* SQLExecutionEvent, or None
  feedback,        \* the critique printed by collect_feedback, or None
  result,          \* the string run_sql_agent returned, or None
  sanitized,       \* query of generate_sql: what sanitize_input returned, or None
  trace,           \* the calls made during this request, in order
  query_history,   \* table query_history
  error_stats      \* table error_stats

vars == <<nreq, pc, topic, intent, intent_response, sql_event, verdicts, execution, feedback,
          result, sanitized, trace, query_history, error_stats>>

request_vars == <<topic, intent, intent_response, sql_event, verdicts, execution, feedback, result,
                  sanitized, trace>>

store_vars == <<query_history, error_stats>>

Init ==
  /\ nreq = 0
  /\ pc = "idle"
  /\ topic = ""
  /\ intent = None
  /\ intent_response = None
  /\ sql_event = None
  /\ verdicts = <<>>
  /\ execution = None
  /\ feedback = None
  /\ result = None
  /\ sanitized = None
  /\ trace = <<>>
  /\ query_history \in SeedHistories
  /\ error_stats = <<>>

\* ---------------------------------------------------------- IntentAnalyzer
is_blank(s) == s = "" \/ strip(s) = ""

\* whether analyze_intent reaches the gateway call
intent_needs_gateway(p) ==
  ~is_blank(p) /\ ~any_search(sql_patterns, p) /\ ~any_search(chat_patterns, p)

\* variant: analyze_intent asking the gateway before it tries its patterns
analyze_intent_gateway_first(p, reply) ==
  IF is_blank(p) THEN Some(<<"chat", "Empty prompt detected">>)
  ELSE IF reply = None THEN None
  ELSE IF any_search(sql_patterns, p) THEN Some(<<"sql", "SQL query detected">>)
  ELSE IF any_search(chat_patterns, p) THEN Some(<<"chat", "Chat intent detected">>)
  ELSE IF upper(strip(reply[1])) = "SQL"
       THEN Some(<<"sql", "LLM analysis, SQL query detected">>)
       ELSE Some(<<"chat", "LLM analysis: chat intent detected">>)

\* variant: analyze_intent trying its chat patterns before its SQL patterns
analyze_intent_chat_first(p, reply) ==
  IF is_blank(p) THEN Some(<<"chat", "Empty prompt detected">>)
  ELSE IF any_search(chat_patterns, p) THEN Some(<<"chat", "Chat intent detected">>)
  ELSE IF any_search(sql_patterns, p) THEN Some(<<"sql", "SQL query detected">>)
  ELSE IF reply = None THEN None
  ELSE IF upper(strip(reply[1])) = "SQL"
       THEN Some(<<"sql", "LLM analysis, SQL query detected">>)
       ELSE Some(<<"chat", "LLM analysis: chat intent detected">>)

\* IntentAnalyzer.analyze_intent: Some(<<intent, message>>), or None when the
\* gateway call raises. reply is the gateway's outcome, read only on the fallback.
analyze_intent(p, reply) ==
  IF is_blank(p) THEN Some(<<"chat", "Empty prompt detected">>)
  ELSE IF any_search(sql_patterns, p) THEN Some(<<"sql", "SQL query detected">>)
  ELSE IF any_search(chat_patterns, p) THEN Some(<<"chat", "Chat intent detected">>)
  ELSE IF reply = None THEN None
  ELSE IF upper(strip(reply[1])) = "SQL"
       THEN Some(<<"sql", "LLM analysis, SQL query detected">>)
       ELSE Some(<<"chat", "LLM analysis: chat intent detected">>)

GatewayOutcomes(replies) == {None} \cup {Some(r) : r \in replies}

IntentTable ==
  [p \in Prompts \cup RouterPrompts |->
     [reply \in GatewayOutcomes(IntentReplies) |-> analyze_intent(p, reply)]]

IntentGatewayTable ==
  [p \in Prompts \cup RouterPrompts |-> intent_needs_gateway(p)]

ChatDeflection == "Please ask question relevant to a Db query"

\* run_sql_agent is called with a prompt
run_sql_agent(p) ==
  /\ pc \in {"idle", "done", "raised"}
  /\ nreq < MaxRequests
  /\ nreq' = nreq + 1
  /\ pc' = "determine_intent"
  /\ topic' = p
  /\ intent' = None
  /\ intent_response' = None
  /\ sql_event' = None
  /\ verdicts' = <<>>
  /\ execution' = None
  /\ feedback' = None
  /\ result' = None
  /\ sanitized' = None
  /\ trace' = <<>>
  /\ UNCHANGED store_vars

\* variant: run_sql_agent going on to the agent whatever the intent is
determine_intent_chat_continues(reply) ==
  /\ pc = "determine_intent"
  /\ LET called == IntentGatewayTable[topic]
         decision == IntentTable[topic][reply]
     IN /\ trace' = trace \o <<"analyze_intent">>
                      \o (IF called THEN <<"gateway_intent">> ELSE <<>>)
        /\ intent' = decision
        /\ intent_response' = (IF called THEN reply ELSE None)
        /\ IF decision = None
           THEN pc' = "raised" /\ result' = None
           ELSE pc' = "generate_sql" /\ result' = None
  /\ UNCHANGED <<nreq, topic, sanitized, sql_event, verdicts, execution, feedback, store_vars>>

\* IntentAnalyzer.determine_intent and the branch of run_sql_agent on its result
determine_intent(reply) ==
  /\ pc = "determine_intent"
  /\ LET called == IntentGatewayTable[topic]
         decision == IntentTable[topic][reply]
     IN /\ trace' = trace \o <<"analyze_intent">>
                      \o (IF called THEN <<"gateway_intent">> ELSE <<>>)
        /\ intent' = decision
        /\ intent_response' = (IF called THEN reply ELSE None)
        /\ IF decision = None
           THEN pc' = "raised" /\ result' = None
           ELSE IF decision[1][1] = "chat"
                THEN pc' = "done" /\ result' = Some(ChatDeflection)
                ELSE pc' = "generate_sql" /\ result' = None
  /\ UNCHANGED <<nreq, topic, sanitized, sql_event, verdicts, execution, feedback, store_vars>>

\* -------------------------------------------------------- SQLAnalysisAgent
RECURSIVE Repeat(_, _)
Repeat(c, n) == IF n <= 0 THEN "" ELSE c \o Repeat(c, n - 1)

\* f"{s:15}": left-aligned in a field of 15, never truncated
pad15(s) == s \o Repeat(" ", 15 - Len(s))

\* " | ".join(items)
RECURSIVE join_bar(_)
join_bar(items) ==
  IF items = <<>> THEN ""
  ELSE IF Len(items) = 1 THEN items[1]
  ELSE items[1] \o " | " \o join_bar(Tail(items))

RECURSIVE format_rows(_)
format_rows(results) ==
  IF results = <<>> THEN ""
  ELSE join_bar([k \in 1..Len(results[1]) |-> pad15(results[1][k])]) \o "\n"
         \o format_rows(Tail(results))

\* SQLAnalysisAgent.format_results
format_results(results, description) ==
  IF results = <<>> THEN "No results found"
  ELSE "\nQuery Results:\n"
         \o Repeat("-", 80) \o "\n"
         \o join_bar([k \in 1..Len(description) |-> pad15(description[k])]) \o "\n"
         \o Repeat("-", 80) \o "\n"
         \o format_rows(results)
         \o Repeat("-", 80) \o "\n"

\* SQLite's LIKE: % is any run of characters, _ any one character, letters
\* compare without case; a NULL operand makes the test fail
RECURSIVE like(_, _)
like(s, pattern) ==
  IF pattern = "" THEN s = ""
  ELSE IF CharAt(pattern, 1) = "%"
  THEN like(s, Rest(pattern, 2)) \/ (s # "" /\ like(Rest(s, 2), pattern))
  ELSE /\ s # ""
       /\ CharAt(pattern, 1) = "_" \/ upper(CharAt(pattern, 1)) = upper(CharAt(s, 1))
       /\ like(Rest(s, 2), Rest(pattern, 2))

\* SQLAnalysisAgent.learn_from_history: the values it can return (the rows
\* that tie on created_at come in no fixed order); None is Python's None
learn_from_history(history, natural_query) ==
  LET hits == {k \in 1..Len(history) :
                 /\ like(history[k].natural_query, "%" \o natural_query \o "%")
                 /\ history[k].execution_result # None
                 /\ ~like(history[k].execution_result[1], "%error%")}
      latest == {k \in hits : \A n \in hits : history[n].created_at <= history[k].created_at}
  IN IF hits = {} THEN {None} ELSE {history[k].generated_sql : k \in latest}

\* variant: the sentinel of the other rejection pasted in
PromptSentinel_pasted == "SELECT 'Security breach detected' as message"

PromptSentinel == "SELECT 'Failed security check' as message"

BreachSentinel == "SELECT 'Security breach detected' as message"

\* the clean-up of the raw completion in generate_sql
clean_completion(response) ==
  rstrip_semicolon(
    strip(replace(replace(strip(response), Fence \o "sql", ""), Fence, "")))

Verdict(check, text, v) ==
  [check |-> check, text |-> text, is_safe |-> v[1], message |-> v[2]]

\* The checks are pure functions of their text: they are tabulated once over
\* the texts the requests of the model can hand them.
Statements ==
  {clean_completion(c) : c \in SqlCompletions}
    \cup {SeedRows[k].generated_sql[1] : k \in 1..Len(SeedRows)}

SqlSafetyTable == [s \in Statements |-> validate_sql_safety(s)]

PromptSafetyTable == [p \in Prompts |-> analyze_prompt_safety(p)]

SanitizedTable == [p \in Prompts |-> sanitize_input(p)]

CleanTable == [c \in SqlCompletions |-> clean_completion(c)]

\* variant: generate_sql raising on a rejected statement instead of answering
\* with the sentinel
synthesize_raising(query, fault, completion, v, t) ==
  IF fault = "gateway"
  THEN {[pc |-> "raised", sql |-> None, verdicts |-> v,
         trace |-> t \o <<"gateway_generate">>, row |-> None,
                                                query |-> Some(query)]}
  ELSE LET s == CleanTable[completion]
       IN { IF ~gv[1]
            THEN [pc |-> "raised", sql |-> None,
                  verdicts |-> v \o <<Verdict("generated_sql", s, gv)>>,
                  trace |-> t \o <<"gateway_generate", "validate_sql_safety">>,
                  row |-> None,
                  query |-> Some(query)]
            ELSE IF fault = "insert"
            THEN [pc |-> "raised", sql |-> None,
                  verdicts |-> v \o <<Verdict("generated_sql", s, gv)>>,
                  trace |-> t \o <<"gateway_generate", "validate_sql_safety",
                                   "history_insert">>,
                  row |-> None,
                  query |-> Some(query)]
            ELSE [pc |-> "execute_sql", sql |-> Some(s),
                  verdicts |-> v \o <<Verdict("generated_sql", s, gv)>>,
                  trace |-> t \o <<"gateway_generate", "validate_sql_safety",
                                   "history_insert">>,
                  row |-> Some(<<query, s>>),
                  query |-> Some(query)]
            : gv \in SqlSafetyTable[s] }

\* variant: generate_sql saving the generated statement before it validates it
synthesize_insert_first(query, fault, completion, v, t) ==
  IF fault = "gateway"
  THEN {[pc |-> "raised", sql |-> None, verdicts |-> v,
         trace |-> t \o <<"gateway_generate">>, row |-> None,
                                                query |-> Some(query)]}
  ELSE LET s == CleanTable[completion]
       IN { IF fault = "insert"
            THEN [pc |-> "raised", sql |-> None, verdicts |-> v,
                  trace |-> t \o <<"gateway_generate", "history_insert">>,
                  row |-> None,
                  query |-> Some(query)]
            ELSE IF ~gv[1]
            THEN [pc |-> "execute_sql", sql |-> Some(BreachSentinel),
                  verdicts |-> v \o <<Verdict("generated_sql", s, gv)>>,
                  trace |-> t \o <<"gateway_generate", "history_insert",
                                   "validate_sql_safety">>,
                  row |-> Some(<<query, s>>),
                  query |-> Some(query)]
            ELSE [pc |-> "execute_sql", sql |-> Some(s),
                  verdicts |-> v \o <<Verdict("generated_sql", s, gv)>>,
                  trace |-> t \o <<"gateway_generate", "history_insert",
                                   "validate_sql_safety">>,
                  row |-> Some(<<query, s>>),
                  query |-> Some(query)]
            : gv \in SqlSafetyTable[s] }

\* the fresh-generation half of generate_sql, from the gateway call on
synthesize(query, fault, completion, v, t) ==
  IF fault = "gateway"
  THEN {[pc |-> "raised", sql |-> None, verdicts |-> v,
         trace |-> t \o <<"gateway_generate">>, row |-> None,
                                                query |-> Some(query)]}
  ELSE LET s == CleanTable[completion]
       IN { IF ~gv[1]
            THEN [pc |-> "execute_sql", sql |-> Some(BreachSentinel),
                  verdicts |-> v \o <<Verdict("generated_sql", s, gv)>>,
                  trace |-> t \o <<"gateway_generate", "validate_sql_safety">>,
                  row |-> None,
                  query |-> Some(query)]
            ELSE IF fault = "insert"
            THEN [pc |-> "raised", sql |-> None,
                  verdicts |-> v \o <<Verdict("generated_sql", s, gv)>>,
                  trace |-> t \o <<"gateway_generate", "validate_sql_safety",
                                   "history_insert">>,
                  row |-> None,
                  query |-> Some(query)]
            ELSE [pc |-> "execute_sql", sql |-> Some(s),
                  verdicts |-> v \o <<Verdict("generated_sql", s, gv)>>,
                  trace |-> t \o <<"gateway_generate", "validate_sql_safety",
                                   "history_insert">>,
                  row |-> Some(<<query, s>>),
                  query |-> Some(query)]
            : gv \in SqlSafetyTable[s] }

\* variant: generate_sql giving up on a statement from history that is refused
generate_sql_outcomes_no_fallthrough(p, history, fault, completion) ==
  LET pv == PromptSafetyTable[p]
      v0 == <<Verdict("prompt", p, pv)>>
      t0 == <<"analyze_prompt_safety">>
      query == SanitizedTable[p]
  IN IF ~pv[1]
     THEN {[pc |-> "execute_sql", sql |-> Some(PromptSentinel), verdicts |-> v0,
            trace |-> t0, row |-> None,
                          query |-> None]}
     ELSE IF fault = "schema"
     THEN {[pc |-> "raised", sql |-> None, verdicts |-> v0,
            trace |-> t0 \o <<"schema_fetch">>, row |-> None,
                                                query |-> Some(query)]}
     ELSE IF fault = "history"
     THEN {[pc |-> "raised", sql |-> None, verdicts |-> v0,
            trace |-> t0 \o <<"schema_fetch", "learn_from_history">>, row |-> None,
                                                                      query |-> Some(query)]}
     ELSE LET t1 == t0 \o <<"schema_fetch", "learn_from_history">>
          IN UNION {
               IF learned = None \/ learned = Some("")
               THEN synthesize(query, fault, completion, v0, t1)
               ELSE UNION {
                      IF lv[1]
                      THEN {[pc |-> "execute_sql", sql |-> learned,
                             verdicts |-> v0 \o <<Verdict("history_sql", learned[1], lv)>>,
                             trace |-> t1 \o <<"validate_sql_safety">>,
                             row |-> None,
                             query |-> Some(query)]}
                      ELSE {[pc |-> "execute_sql", sql |-> Some(BreachSentinel),
                             verdicts |-> v0 \o <<Verdict("history_sql", learned[1], lv)>>,
                             trace |-> t1 \o <<"validate_sql_safety">>,
                             row |-> None,
                             query |-> Some(query)]}
                      : lv \in SqlSafetyTable[learned[1]] }
               : learned \in learn_from_history(history, query) }

\* variant: generate_sql returning the statement found in history whatever
\* validate_sql_safety said of it
generate_sql_outcomes_reuse_unchecked(p, history, fault, completion) ==
  LET pv == PromptSafetyTable[p]
      v0 == <<Verdict("prompt", p, pv)>>
      t0 == <<"analyze_prompt_safety">>
      query == SanitizedTable[p]
  IN IF ~pv[1]
     THEN {[pc |-> "execute_sql", sql |-> Some(PromptSentinel), verdicts |-> v0,
            trace |-> t0, row |-> None,
                          query |-> None]}
     ELSE IF fault = "schema"
     THEN {[pc |-> "raised", sql |-> None, verdicts |-> v0,
            trace |-> t0 \o <<"schema_fetch">>, row |-> None,
                                                query |-> Some(query)]}
     ELSE IF fault = "history"
     THEN {[pc |-> "raised", sql |-> None, verdicts |-> v0,
            trace |-> t0 \o <<"schema_fetch", "learn_from_history">>, row |-> None,
                                                                      query |-> Some(query)]}
     ELSE LET t1 == t0 \o <<"schema_fetch", "learn_from_history">>
          IN UNION {
               IF learned = None \/ learned = Some("")
               THEN synthesize(query, fault, completion, v0, t1)
               ELSE UNION {
                      IF TRUE
                      THEN {[pc |-> "execute_sql", sql |-> learned,
                             verdicts |-> v0 \o <<Verdict("history_sql", learned[1], lv)>>,
                             trace |-> t1 \o <<"validate_sql_safety">>,
                             row |-> None,
                             query |-> Some(query)]}
                      ELSE synthesize(query, fault, completion,
                                      v0 \o <<Verdict("history_sql", learned[1], lv)>>,
                                      t1 \o <<"validate_sql_safety">>)
                      : lv \in SqlSafetyTable[learned[1]] }
               : learned \in learn_from_history(history, query) }

\* SQLAnalysisAgent.generate_sql: the outcomes of the step on a prompt and a
\* history table. fault names the call that raises, if it is reached:
\* "schema" (the tables_info query), "history" (the query of
\* learn_from_history), "gateway" (acomplete), "insert" (the INSERT or its
\* commit), or "none". completion is the gateway's reply when it is asked.
generate_sql_outcomes(p, history, fault, completion) ==
  LET pv == PromptSafetyTable[p]
      v0 == <<Verdict("prompt", p, pv)>>
      t0 == <<"analyze_prompt_safety">>
      query == SanitizedTable[p]
  IN IF ~pv[1]
     THEN {[pc |-> "execute_sql", sql |-> Some(PromptSentinel), verdicts |-> v0,
            trace |-> t0, row |-> None,
                          query |-> None]}
     ELSE IF fault = "schema"
     THEN {[pc |-> "raised", sql |-> None, verdicts |-> v0,
            trace |-> t0 \o <<"schema_fetch">>, row |-> None,
                                                query |-> Some(query)]}
     ELSE IF fault = "history"
     THEN {[pc |-> "raised", sql |-> None, verdicts |-> v0,
            trace |-> t0 \o <<"schema_fetch", "learn_from_history">>, row |-> None,
                                                                      query |-> Some(query)]}
     ELSE LET t1 == t0 \o <<"schema_fetch", "learn_from_history">>
          IN UNION {
               IF learned = None \/ learned = Some("")
               THEN synthesize(query, fault, completion, v0, t1)
               ELSE UNION {
                      IF lv[1]
                      THEN {[pc |-> "execute_sql", sql |-> learned,
                             verdicts |-> v0 \o <<Verdict("history_sql", learned[1], lv)>>,
                             trace |-> t1 \o <<"validate_sql_safety">>,
                             row |-> None,
                             query |-> Some(query)]}
                      ELSE synthesize(query, fault, completion,
                                      v0 \o <<Verdict("history_sql", learned[1], lv)>>,
                                      t1 \o <<"validate_sql_safety">>)
                      : lv \in SqlSafetyTable[learned[1]] }
               : learned \in learn_from_history(history, query) }

GenerateFaults == {"none", "schema", "history", "gateway", "insert"}

generate_sql(fault, completion) ==
  /\ pc = "generate_sql"
  /\ \E o \in generate_sql_outcomes(topic, query_history, fault, completion) :
       /\ pc' = o.pc
       /\ sql_event' = o.sql
       /\ sanitized' = o.query
       /\ verdicts' = verdicts \o o.verdicts
       /\ trace' = trace \o o.trace
       /\ query_history' =
            IF o.row = None THEN query_history
            ELSE Append(query_history,
                        [natural_query |-> o.row[1][1],
                         generated_sql |-> Some(o.row[1][2]),
                         execution_result |-> None,
                         created_at |-> nreq])
  /\ UNCHANGED <<nreq, topic, intent, intent_response, execution, feedback, result, error_stats>>

\* What the store answers to a statement. A SELECT of one quoted literal
\* under an alias is a constant: one row holding the literal, in a column
\* named by the alias. The answer to any other statement depends on the rows
\* of the tables, which the program does not own.
literal_select(statement) ==
  LET quotes == Occurrences(statement, "'")
  IN IF startswith(statement, "SELECT '") /\ Cardinality(quotes) = 2
     THEN LET close == CHOOSE i \in quotes : i # 7
              tail == Rest(statement, close + 2)
          IN IF startswith(tail, " as ") /\ Len(tail) > 4
             THEN Some(<<SubSeq(statement, 9, close), Rest(tail, 5)>>)
             ELSE None
     ELSE None

SampleRow == <<"apple", "5">>

SampleDescription == <<"name", "price">>

StoreAnswers(statement) ==
  { [raised |-> FALSE, rows |-> rs[1], description |-> rs[2], time |-> tm, error |-> ""]
      : rs \in (IF literal_select(statement) # None
                THEN {<< <<<<literal_select(statement)[1][1]>>>>,
                         <<literal_select(statement)[1][2]>> >>}
                ELSE {<<[k \in 1..n |-> SampleRow], SampleDescription>>
                        : n \in 0..MaxRows}),
        tm \in 0..MaxExecTime }
  \cup
  { [raised |-> TRUE, rows |-> <<>>, description |-> <<>>, time |-> 0, error |-> e]
      : e \in StoreErrors }

\* SQLAnalysisAgent.log_error: the row it adds to error_stats; written is
\* FALSE when the INSERT or the commit raises, which log_error swallows
log_error(stats, error_msg, query, written) ==
  IF written
  THEN Append(stats, [error_type |-> "SECURITY_VIOLATION",
                      query |-> query, message |-> error_msg])
  ELSE stats

\* variant: execute_sql leaving the exception's message out of its text
execute_sql_event_no_message(answer) ==
  IF ~answer.raised
  THEN [execution_result |-> format_results(answer.rows, answer.description),
        execution_time |-> answer.time,
        row_count |-> Len(answer.rows)]
  ELSE [execution_result |-> "Error in executing SQL query",
        execution_time |-> 0,
        row_count |-> 0]

\* SQLAnalysisAgent.execute_sql: the event it returns on the store's answer
execute_sql_event(answer) ==
  IF ~answer.raised
  THEN [execution_result |-> format_results(answer.rows, answer.description),
        execution_time |-> answer.time,
        row_count |-> Len(answer.rows)]
  ELSE [execution_result |-> "Error in executing SQL query: " \o answer.error,
        execution_time |-> 0,
        row_count |-> 0]

\* answer is what the store does with the statement; written is whether
\* the row of log_error reaches error_stats
execute_sql(written) ==
  /\ pc = "execute_sql"
  /\ \E answer \in StoreAnswers(sql_event[1]) :
       /\ execution' = Some(execute_sql_event(answer))
       /\ IF answer.raised
          THEN /\ error_stats' =
                    log_error(error_stats, answer.error,
                              "Error in executing SQL query: " \o answer.error,
                              written)
               /\ trace' = trace \o <<"cursor_execute", "log_error">>
          ELSE /\ written
               /\ error_stats' = error_stats
               /\ trace' = trace \o <<"cursor_execute">>
  /\ pc' = "collect_feedback"
  /\ UNCHANGED <<nreq, topic, sanitized, intent, intent_response, sql_event, verdicts, feedback, result,
                 query_history>>

\* variant: collect_feedback sending the request back to execute_sql when
\* the gateway gives no critique
collect_feedback_reruns(reply) ==
  /\ pc = "collect_feedback"
  /\ trace' = trace \o <<"gateway_feedback">>
  /\ IF reply = None
     THEN pc' = "execute_sql" /\ feedback' = None /\ result' = None
     ELSE /\ pc' = "done"
          /\ feedback' = reply
          /\ result' = Some(execution[1].execution_result)
  /\ UNCHANGED <<nreq, topic, sanitized, intent, intent_response, sql_event, verdicts, execution, store_vars>>

\* variant: collect_feedback adding the critique to the text it returns
collect_feedback_appends_critique(reply) ==
  /\ pc = "collect_feedback"
  /\ trace' = trace \o <<"gateway_feedback">>
  /\ IF reply = None
     THEN pc' = "raised" /\ feedback' = None /\ result' = None
     ELSE /\ pc' = "done"
          /\ feedback' = reply
          /\ result' = Some(execution[1].execution_result \o "\n" \o reply[1])
  /\ UNCHANGED <<nreq, topic, sanitized, intent, intent_response, sql_event, verdicts, execution, store_vars>>

\* variant: collect_feedback stopping with the critique as its result
collect_feedback_returns_critique(reply) ==
  /\ pc = "collect_feedback"
  /\ trace' = trace \o <<"gateway_feedback">>
  /\ IF reply = None
     THEN pc' = "raised" /\ feedback' = None /\ result' = None
     ELSE /\ pc' = "done"
          /\ feedback' = reply
          /\ result' = reply
  /\ UNCHANGED <<nreq, topic, sanitized, intent, intent_response, sql_event, verdicts, execution, store_vars>>

\* SQLAnalysisAgent.collect_feedback, and run_sql_agent returning str(result);
\* reply is None when the gateway call raises
collect_feedback(reply) ==
  /\ pc = "collect_feedback"
  /\ trace' = trace \o <<"gateway_feedback">>
  /\ IF reply = None
     THEN pc' = "raised" /\ feedback' = None /\ result' = None
     ELSE /\ pc' = "done"
          /\ feedback' = reply
          /\ result' = Some(execution[1].execution_result)
  /\ UNCHANGED <<nreq, topic, sanitized, intent, intent_response, sql_event, verdicts, execution, store_vars>>

Next ==
  \/ \E p \in Prompts : run_sql_agent(p)
  \/ \E reply \in GatewayOutcomes(IntentReplies) : determine_intent(reply)
  \/ \E fault \in GenerateFaults, completion \in SqlCompletions :
       generate_sql(fault, completion)
  \/ \E written \in BOOLEAN : execute_sql(written)
  \/ \E reply \in GatewayOutcomes(FeedbackReplies) : collect_feedback(reply)

Spec == Init /\ [][Next]_vars

\* ------------------------------------------- the guards on generated inputs
\* Statements put together from parts, each with the tables it reads, and
\* prompts put together from words: the inputs of GuardSpec, which applies
\* validate_sql_safety and analyze_prompt_safety to each of them.
StatementForms ==
  { [text |-> lead \o verb \o " " \o col.text \o from[1] \o tbl.text \o from[2]
                \o tail.text,
     tables |-> {tbl.name} \cup col.tables \cup tail.tables]
    : lead \in {"", " "},
      verb \in {"SELECT", "select", "SELECTALL", "DELETE", "EXPLAIN SELECT"},
      col \in { [text |-> "*", tables |-> {}],
                [text |-> "MAX(price)", tables |-> {}],
                [text |-> "(SELECT name FROM(users))", tables |-> {"users"}] },
      from \in { <<" FROM ", "">>, <<" from\n", "">>, <<" FROM(", ")">> },
      tbl \in { [text |-> "products", name |-> "products"],
                [text |-> "Products", name |-> "products"],
                [text |-> "users", name |-> "users"],
                [text |-> "main.users", name |-> "users"] },
      tail \in { [text |-> "", tables |-> {}],
                 [text |-> " WHERE price > 10", tables |-> {}],
                 [text |-> "; DROP TABLE products", tables |-> {}],
                 [text |-> " UNION SELECT name FROM users", tables |-> {"users"}] } }

GuardStatements == {f.text : f \in StatementForms}

\* the tables a generated statement reads
ReferencedTables(s) == UNION {f.tables : f \in {g \in StatementForms : g.text = s}}

PromptWords ==
  { "show", "products", "hello", "this", "drop", "table", "Hack", "union",
    "select", ";", "price--", "PASSWORD" }

\* filler letters that match no pattern, cut to a length
Filler16 == "abcdefgabcdefgab"

Filler128 ==
  Filler16 \o Filler16 \o Filler16 \o Filler16
    \o Filler16 \o Filler16 \o Filler16 \o Filler16

Filler(n) == SubSeq(Filler128 \o Filler128 \o Filler128 \o Filler128, 1, n)

\* prompts around the length limit of analyze_prompt_safety: acceptable but
\* for their length, malicious, and without a safe keyword
BoundaryPrompts ==
  {"show " \o Filler(n) : n \in 494..497}
    \cup {"drop table " \o Filler(490), "show ; " \o Filler(494), Filler(500), Filler(501)}

GuardPrompts ==
  {""} \cup PromptWords
       \cup {a \o sep \o b : a \in PromptWords, b \in PromptWords, sep \in {" ", "\t "}}
       \cup BoundaryPrompts

GuardInit ==
  /\ nreq = 0
  /\ \/ pc = "check_sql" /\ sql_event \in {Some(s) : s \in GuardStatements} /\ topic = ""
     \/ pc = "check_prompt" /\ sql_event = None /\ topic \in GuardPrompts
  /\ intent = None
  /\ intent_response = None
  /\ verdicts = <<>>
  /\ execution = None
  /\ feedback = None
  /\ result = None
  /\ sanitized = None
  /\ trace = <<>>
  /\ query_history = <<>>
  /\ error_stats = <<>>

\* validate_sql_safety applied to the statement
check_sql ==
  /\ pc = "check_sql"
  /\ \E v \in validate_sql_safety(sql_event[1]) :
       verdicts' = <<Verdict("sql", sql_event[1], v)>>
  /\ pc' = "checked"
  /\ UNCHANGED <<nreq, topic, sanitized, intent, intent_response, sql_event, execution, feedback, result,
                 trace, store_vars>>

\* analyze_prompt_safety applied to the prompt
check_prompt ==
  /\ pc = "check_prompt"
  /\ verdicts' = <<Verdict("prompt", topic, analyze_prompt_safety(topic))>>
  /\ pc' = "checked"
  /\ UNCHANGED <<nreq, topic, sanitized, intent, intent_response, sql_event, execution, feedback, result,
                 trace, store_vars>>

\* validate_sql_safety applied once more to a statement it accepted, as
\* generate_sql applies it to the statement it has from the history
revalidate_sql ==
  /\ pc = "checked"
  /\ verdicts[1].check = "sql" /\ verdicts[1].is_safe
  /\ \E v \in validate_sql_safety(sql_event[1]) :
       verdicts' = Append(verdicts, Verdict("history_sql", sql_event[1], v))
  /\ pc' = "revalidated"
  /\ UNCHANGED <<nreq, topic, sanitized, intent, intent_response, sql_event, execution, feedback,
                 result, trace, store_vars>>

GuardNext == check_sql \/ check_prompt \/ revalidate_sql

GuardSpec == GuardInit /\ [][GuardNext]_vars

\* ---------------------------------------------- the router on many prompts
\* A request with one of RouterPrompts, taken as far as the intent decision.
RouterInit ==
  /\ nreq = 1
  /\ pc = "determine_intent"
  /\ topic \in RouterPrompts
  /\ intent = None
  /\ intent_response = None
  /\ sql_event = None
  /\ verdicts = <<>>
  /\ execution = None
  /\ feedback = None
  /\ result = None
  /\ sanitized = None
  /\ trace = <<>>
  /\ query_history = <<>>
  /\ error_stats = <<>>

RouterNext == \E reply \in GatewayOutcomes(IntentReplies) : determine_intent(reply)

RouterSpec == RouterInit /\ [][RouterNext]_vars


\* ------------------------------------------- sanitize_input on many strings
\* The strings sanitize_input is applied to on its own: up to MaxPieces of
\* the pieces it treats (quote, semicolon, dash, dash pair), the block
\* comment markers, a letter and a blank.
SanitizePieces == {"'", ";", "-", "--", "/*", "*/", "a", " "}

RECURSIVE PieceStrings(_)
PieceStrings(n) ==
  IF n = 0 THEN {""}
  ELSE LET shorter == PieceStrings(n - 1)
       IN shorter \cup {s \o c : s \in shorter, c \in SanitizePieces}

SanitizeInputs == PieceStrings(MaxPieces)

\* The pipeline as in Init, or a string handed to sanitize_input on its own.
SanitizeInit ==
  \/ Init
  \/ /\ nreq = 0
     /\ pc = "sanitize_input"
     /\ topic \in SanitizeInputs
     /\ intent = None
     /\ intent_response = None
     /\ sql_event = None
     /\ verdicts = <<>>
     /\ execution = None
     /\ feedback = None
     /\ result = None
     /\ sanitized = None
     /\ trace = <<>>
     /\ query_history = <<>>
     /\ error_stats = <<>>

\* sanitize_input applied to the string
apply_sanitize_input ==
  /\ pc = "sanitize_input"
  /\ sanitized' = Some(sanitize_input(topic))
  /\ pc' = "returned"
  /\ UNCHANGED <<nreq, topic, intent, intent_response, sql_event, verdicts, execution,
                 feedback, result, trace, store_vars>>

SanitizeNext == Next \/ apply_sanitize_input

SanitizeSpec == SanitizeInit /\ [][SanitizeNext]_vars

\* ------------------------------------------------------------------ claims
Called(event) == \E k \in 1..Len(trace) : trace[k] = event

Sentinels == {PromptSentinel, BreachSentinel}

\* the candidate was accepted by validate_sql_safety during this request
CandidateValidated ==
  \E k \in 1..Len(verdicts) :
    /\ verdicts[k].check \in {"history_sql", "generated_sql"}
    /\ verdicts[k].text = sql_event[1]
    /\ verdicts[k].is_safe

\* C1, as claimed: every statement handed to execute_sql was given
\* is_safe = True by validate_sql_safety earlier in the same request.
C1_ExecutedWasValidated ==
  sql_event # None => CandidateValidated

\* C1, amended: a statement handed to execute_sql either was given
\* is_safe = True by validate_sql_safety earlier in the same request (it is
\* then the statement of the last verdict), or is one of the two fixed
\* sentinel statements, which generate_sql builds after a rejection and
\* which no check is run on.
C1_ExecutedValidatedOrSentinel ==
  sql_event # None =>
    LET last == verdicts[Len(verdicts)]
    IN \/ /\ CandidateValidated
          /\ last.is_safe /\ last.text = sql_event[1]
          /\ sql_event[1] \notin {"SELECT 'Failed security check' as message",
                                  "SELECT 'Security breach detected' as message"}
       \/ /\ sql_event[1] = "SELECT 'Failed security check' as message"
          /\ last.check = "prompt" /\ ~last.is_safe
       \/ /\ sql_event[1] = "SELECT 'Security breach detected' as message"
          /\ last.check = "generated_sql" /\ ~last.is_safe

\* a statement reused from history was executed after its check
C1_Witness ==
  /\ Called("cursor_execute")
  /\ ~Called("gateway_generate")
  /\ CandidateValidated
  /\ verdicts[Len(verdicts)].check = "history_sql"

\* the one-row table format_results makes of a sentinel's row
SentinelTable(message) ==
  "\nQuery Results:\n" \o Repeat("-", 80) \o "\n"
    \o "message        " \o "\n" \o Repeat("-", 80) \o "\n"
    \o message \o "\n" \o Repeat("-", 80) \o "\n"

FailedTable == SentinelTable("Failed security check")

BreachTable == SentinelTable("Security breach detected")

\* C2, as claimed: once check_prompt has rejected, or the synthesizer has
\* answered with the security-breach sentinel, nothing is executed against
\* the store and the request is done with the sentinel text as its result.
C2_RejectionSkipsExecution ==
  (sql_event # None /\ sql_event[1] \in Sentinels) =>
    /\ ~Called("cursor_execute")
    /\ pc = "done"
    /\ result = sql_event

\* C2, amended: after either rejection the sentinel statement is handed to
\* execute_sql like any candidate: it is executed against the store and the
\* feedback call is made before the request is done. No statement of the
\* gateway or of the history is executed and no history row is written; and
\* when the execution does not raise, the returned string is the table
\* format_results makes of the one row holding 'Failed security check'
\* (prompt rejected) or 'Security breach detected' (generated SQL rejected).
C2_RejectionExecutesSentinel ==
  (verdicts # <<>> /\ ~verdicts[Len(verdicts)].is_safe
     /\ verdicts[Len(verdicts)].check \in {"prompt", "generated_sql"}) =>
    /\ sql_event \in {Some(s) : s \in Sentinels}
    /\ pc \in {"execute_sql", "collect_feedback", "done", "raised"}
    /\ \A k \in 1..Len(query_history) : query_history[k].created_at # nreq
    /\ pc = "done" =>
         /\ Called("cursor_execute") /\ Called("gateway_feedback")
         /\ ~Called("log_error") =>
              /\ execution[1].row_count = 1
              /\ result = IF verdicts[Len(verdicts)].check = "prompt"
                          THEN Some(FailedTable) ELSE Some(BreachTable)

\* a rejected prompt ended with the table of its sentinel
C2_Witness ==
  /\ pc = "done"
  /\ verdicts # <<>> /\ verdicts[1].check = "prompt" /\ ~verdicts[1].is_safe
  /\ result = Some(FailedTable)

PromptMatches ==
  [p \in Prompts \cup GuardPrompts |->
     \E k \in 1..Len(malicious_prompts_patterns) :
       re_search(malicious_prompts_patterns[k].re, p)]

GuardPromptSafety == [p \in GuardPrompts |-> analyze_prompt_safety(p)]

MaliciousPromptsRejected ==
  \A p \in GuardPrompts : PromptMatches[p] => ~GuardPromptSafety[p][1]

\* C3: analyze_prompt_safety rejects every prompt that matches a malicious
\* pattern, and in a request with such a prompt learn_from_history, the
\* generation call of the gateway and the history insert are never reached
\* and no row is added to query_history.
C3_MaliciousRejectedBeforeGeneration ==
  /\ MaliciousPromptsRejected
  /\ (nreq > 0 /\ PromptMatches[topic]) =>
       /\ ~Called("learn_from_history")
       /\ ~Called("gateway_generate")
       /\ ~Called("history_insert")
       /\ \A k \in 1..Len(query_history) : query_history[k].created_at # nreq
       /\ Called("analyze_prompt_safety") =>
            /\ ~verdicts[1].is_safe
            /\ Len(verdicts) = 1
            /\ startswith(verdicts[1].message, "Malicious pattern detected: ")

\* a malicious prompt that holds a safe keyword went through the whole request
C3_Witness ==
  /\ pc = "done"
  /\ topic = "show products; --"
  /\ Called("analyze_prompt_safety")

CheckedSql == pc = "checked" /\ verdicts[1].check = "sql"

\* C4, as claimed: validate_sql_safety rejects every statement that reads a
\* table other than products (the claim adds: with the unauthorized-table
\* reason).
C4_UnauthorizedTableRejected ==
  (CheckedSql /\ ~(ReferencedTables(verdicts[1].text) \subseteq allowed_tables))
    => ~verdicts[1].is_safe

\* the first word of a statement, after its leading whitespace, in upper case
RECURSIVE word_prefix(_)
word_prefix(s) ==
  IF s # "" /\ CharAt(s, 1) \in WordChars
  THEN CharAt(s, 1) \o word_prefix(Rest(s, 2)) ELSE ""

FirstToken(s) == upper(word_prefix(lstrip(s)))

\* C5: validate_sql_safety rejects every statement whose first token is not
\* SELECT, whatever follows it: every accepted statement begins with SELECT.
C5_NonSelectRejected ==
  (CheckedSql /\ FirstToken(verdicts[1].text) # "SELECT") => ~verdicts[1].is_safe

\* a statement that is a well-shaped SELECT but for its first token
C5_Witness ==
  /\ CheckedSql
  /\ verdicts[1].text = "EXPLAIN SELECT * FROM products"
  /\ ~verdicts[1].is_safe

Last(seq) == seq[Len(seq)]

\* the calls whose exception nothing catches before it leaves run_sql_agent
EscapingCalls ==
  {"gateway_intent", "schema_fetch", "learn_from_history", "gateway_generate",
   "history_insert", "gateway_feedback"}

\* C6, as claimed: whatever call of the gateway or of the store fails,
\* run_sql_agent returns a string and raises nothing.
C6_NoFaultEscapesRun ==
  pc # "raised"

\* C6, amended: run_sql_agent returns a string unless a call outside
\* execute_sql raises. An exception of the statement's execution, or of the
\* write of its error-log row, is caught and becomes an error-text result;
\* an exception of the gateway (intent fallback, generation, feedback) or of
\* a store call of generate_sql (schema fetch, history lookup, history
\* insert and commit) leaves run_sql_agent, and no string is returned.
C6_OnlyExecutionFaultsContained ==
  /\ pc = "raised" =>
       /\ result = None
       /\ trace # <<>> /\ Last(trace) \in EscapingCalls
  /\ pc = "done" => result # None /\ result[1] \in STRING
  /\ (trace # <<>> /\ Last(trace) \in {"cursor_execute", "log_error"}) =>
       pc = "collect_feedback" /\ execution # None

\* the history insert of an accepted statement raised and left the request
C6_Witness ==
  /\ pc = "raised"
  /\ Last(trace) = "history_insert"

\* C7, as claimed: analyze_intent always returns a decision, CHAT when the
\* gateway call it falls back on fails.
C7_RouterNeverFails ==
  Called("analyze_intent") => (intent # None /\ pc # "raised")

\* C7, amended: analyze_intent returns a decision whenever its patterns
\* decide (blank prompt, SQL indicator, chat indicator) or the gateway
\* answers. When the patterns are inconclusive and the gateway call raises
\* or times out, it returns nothing: the exception leaves the router and
\* run_sql_agent, and no CHAT decision is made.
C7_RouterFailsWithGateway ==
  Called("analyze_intent") =>
    /\ intent = None =>
         /\ IntentGatewayTable[topic]
         /\ pc = "raised" /\ result = None
         /\ trace = <<"analyze_intent", "gateway_intent">>
    /\ ~IntentGatewayTable[topic] => (intent # None /\ ~Called("gateway_intent"))
    /\ intent # None => intent[1][1] \in {"sql", "chat"}

\* a prompt no pattern decides met a gateway that raised
C7_Witness ==
  /\ topic = "tell me more"
  /\ pc = "raised"
  /\ intent = None

\* C8, as claimed: when analyze_prompt_safety rejects the prompt, or
\* validate_sql_safety rejects the generated statement, error_stats holds a
\* row with the rejected text by the end of the request.
C8_RejectionsAreLogged ==
  pc \in {"done", "raised"} =>
    \A k \in 1..Len(verdicts) :
      (~verdicts[k].is_safe /\ verdicts[k].check \in {"prompt", "generated_sql"})
        => \E j \in 1..Len(error_stats) : error_stats[j].query = verdicts[k].text

ExecFailed == Called("log_error")

ErrorText(e) == "Error in executing SQL query: " \o e

C10_FeedbackFailureSwallowed ==
  Called("gateway_feedback") =>
    (pc = "done" /\ result = Some(execution[1].execution_result))

\* C10, amended: a failure of the gateway call of collect_feedback is not
\* swallowed: the exception leaves run_sql_agent and no string is returned,
\* though the execution event was made. When the call returns, the request
\* is done and returns the text of the execution event.
C10_FeedbackFailurePropagates ==
  Called("gateway_feedback") =>
    /\ execution # None
    /\ pc \in {"done", "raised"}
    /\ pc = "done" =>
         (feedback # None /\ result = Some(execution[1].execution_result))
    /\ pc = "raised" => (feedback = None /\ result = None)

\* the critique call raised after a successful execution
C10_Witness ==
  /\ pc = "raised"
  /\ Called("gateway_feedback")
  /\ ~ExecFailed
  /\ execution[1].row_count = 1


IsChat == intent # None /\ intent[1][1] = "chat"

\* C11: when analyze_intent answers chat (as it does for an empty or blank
\* prompt), run_sql_agent returns the fixed deflection message and the
\* request is over: no prompt check, no generation, no execution and no
\* critique is made, and the step writes nothing to query_history or
\* error_stats.
C11_ChatDeflectsWithoutStages ==
  /\ [](IsChat =>
          /\ pc = "done"
          /\ result = Some(ChatDeflection)
          /\ \A k \in 1..Len(trace) : trace[k] \in {"analyze_intent", "gateway_intent"}
          /\ verdicts = <<>> /\ sql_event = None
          /\ execution = None /\ feedback = None)
  /\ []((is_blank(topic) /\ Called("analyze_intent")) =>
          intent = Some(<<"chat", "Empty prompt detected">>))
  /\ [][IsChat' => UNCHANGED store_vars]_vars

\* a blank prompt was deflected while the history held rows
C11_Witness ==
  /\ topic = "  "
  /\ pc = "done"
  /\ result = Some(ChatDeflection)
  /\ query_history = SeedRows


\* the patterns of a list that a prompt matches, by index
MatchingIndexes(patterns, p) ==
  {k \in 1..Len(patterns) : re_search(patterns[k].re, p)}

CheckedPrompt == pc = "checked" /\ verdicts[1].check = "prompt"

\* C12: analyze_prompt_safety tries empty, then the malicious patterns, then
\* the safe patterns, then the length, and answers with the reason of the
\* first that fires; for a malicious prompt the reason names the first
\* pattern of the list that matches. A prompt is too long exactly when it
\* has more than 500 characters: one of 500 that is otherwise acceptable is
\* accepted, one of 501 is refused.
C12_PromptChecksInOrder ==
  CheckedPrompt =>
    LET p == topic
        v == verdicts[1]
        bad == MatchingIndexes(malicious_prompts_patterns, p)
        good == MatchingIndexes(safe_prompt_patterns, p)
    IN /\ is_blank(p) => (~v.is_safe /\ v.message = "Empty query")
       /\ (~is_blank(p) /\ bad # {}) =>
            /\ ~v.is_safe
            /\ \E k \in bad :
                 /\ \A n \in bad : k <= n
                 /\ v.message = "Malicious pattern detected: "
                                  \o malicious_prompts_patterns[k].src
       /\ (~is_blank(p) /\ bad = {} /\ good = {}) =>
            (~v.is_safe /\ v.message = "Query does not contain safe patterns")
       /\ (~is_blank(p) /\ bad = {} /\ good # {} /\ Len(p) > 500) =>
            (~v.is_safe /\ v.message = "Query too long")
       /\ (~is_blank(p) /\ bad = {} /\ good # {} /\ Len(p) <= 500) =>
            (v.is_safe /\ v.message = "Query is safe")

\* a prompt of exactly 500 characters was accepted
C12_Witness ==
  /\ CheckedPrompt
  /\ Len(topic) = 500
  /\ verdicts[1].is_safe


\* C13: analyze_intent answers chat for an empty or blank prompt; else sql
\* when a pattern of sql_patterns matches, whether or not one of
\* chat_patterns matches too; else chat when a pattern of chat_patterns
\* matches; in these three cases the gateway is not asked. Otherwise the
\* gateway is asked, and its answer gives sql only when, stripped and
\* upper-cased, it is exactly SQL, and chat in every other case.
C13_RouterDecision ==
  Called("analyze_intent") =>
    LET p == topic
        sql_hit == MatchingIndexes(sql_patterns, p) # {}
        chat_hit == MatchingIndexes(chat_patterns, p) # {}
        asked == Called("gateway_intent")
    IN /\ is_blank(p) =>
            (intent = Some(<<"chat", "Empty prompt detected">>) /\ ~asked)
       /\ (~is_blank(p) /\ sql_hit) =>
            (intent = Some(<<"sql", "SQL query detected">>) /\ ~asked)
       /\ (~is_blank(p) /\ ~sql_hit /\ chat_hit) =>
            (intent = Some(<<"chat", "Chat intent detected">>) /\ ~asked)
       /\ (~is_blank(p) /\ ~sql_hit /\ ~chat_hit) =>
            /\ asked
            /\ intent_response # None =>
                 /\ intent # None
                 /\ intent[1][1] \in {"sql", "chat"}
                 /\ intent[1][1] = "sql" <=> upper(strip(intent_response[1])) = "SQL"
                 /\ intent_response[1] \in {"CHAT", "SQL."} => intent[1][1] = "chat"
       /\ ~asked => intent_response = None

\* a prompt with a chat word and an SQL word was classified sql
C13_Witness ==
  /\ topic = "hello show"
  /\ intent = Some(<<"sql", "SQL query detected">>)


\* C14: when collect_feedback ends the request, the string run_sql_agent
\* returns is the execution_result of the execution event and nothing else:
\* it is the same whatever text the gateway gave as critique, and the
\* critique is no part of it.
C14_ResultIsExecutionText ==
  /\ [][(pc = "collect_feedback" /\ pc' = "done") =>
          /\ execution' = execution
          /\ feedback' # None
          /\ result' = Some(execution[1].execution_result)]_vars
  /\ []((pc = "done" /\ feedback # None) =>
          /\ result = Some(execution[1].execution_result)
          /\ result # Some(execution[1].execution_result \o feedback[1])
          /\ result # feedback)

\* a request that returned a one-row table ended with the shorter critique
C14_Witness ==
  /\ pc = "done"
  /\ feedback = Some("1. No")
  /\ execution # None /\ execution[1].row_count = 1
  /\ result = Some(execution[1].execution_result)


HistoryVerdicts == {k \in 1..Len(verdicts) : verdicts[k].check = "history_sql"}

\* C16: generate_sql returns the statement it has from learn_from_history
\* only when validate_sql_safety accepts it, and then asks the gateway for
\* nothing. When validate_sql_safety refuses it, the statement is not the one
\* handed to execute_sql: generate_sql goes on to ask the gateway, and the
\* statement the gateway gives is validated in its turn.
C16_ReuseOnlyIfAccepted ==
  \A k \in HistoryVerdicts :
    IF verdicts[k].is_safe
    THEN /\ sql_event = Some(verdicts[k].text)
         /\ k = Len(verdicts)
         /\ ~Called("gateway_generate") /\ ~Called("history_insert")
    ELSE /\ sql_event # Some(verdicts[k].text)
         /\ Called("gateway_generate")
         /\ Last(trace) # "gateway_generate" =>
              /\ Len(verdicts) = k + 1
              /\ verdicts[k + 1].check = "generated_sql"
              /\ (pc # "raised" /\ verdicts[k + 1].is_safe) =>
                   sql_event = Some(verdicts[k + 1].text)
              /\ ~verdicts[k + 1].is_safe => sql_event = Some(BreachSentinel)

\* the statement from history was refused and a generated one was run in
\* its place
C16_Witness ==
  /\ pc = "done"
  /\ Len(verdicts) = 3
  /\ verdicts[2].check = "history_sql" /\ ~verdicts[2].is_safe
  /\ verdicts[3].is_safe
  /\ sql_event = Some(verdicts[3].text)


RowsOfRequest(n) == {k \in 1..Len(query_history) : query_history[k].created_at = n}

\* C17: the requests only ever append to query_history, and never change or
\* remove a row. A row is added by generate_sql alone, at most one in a
\* request, after the gateway generated a statement that validate_sql_safety
\* accepted: never when the statement comes from history, when the prompt or
\* the generated statement is refused, or when the intent is chat. The row
\* holds the sanitized prompt and the accepted statement, so every
\* generated_sql the requests write is one validate_sql_safety accepts.
C17_HistoryAppendOnly ==
  /\ [][\/ query_history' = query_history
        \/ /\ pc = "generate_sql"
           /\ Len(query_history') = Len(query_history) + 1
           /\ SubSeq(query_history', 1, Len(query_history)) = query_history
           /\ LET row == query_history'[Len(query_history')]
                  last == verdicts'[Len(verdicts')]
              IN /\ intent # None /\ intent[1][1] = "sql"
                 /\ verdicts'[1].check = "prompt" /\ verdicts'[1].is_safe
                 /\ last.check = "generated_sql" /\ last.is_safe
                 /\ \A k \in 1..Len(verdicts') :
                      verdicts'[k].check = "history_sql" => ~verdicts'[k].is_safe
                 /\ row.natural_query = sanitize_input(topic)
                 /\ row.generated_sql = Some(last.text)
                 /\ row.execution_result = None
                 /\ sql_event' = row.generated_sql
                 /\ \A v \in validate_sql_safety(row.generated_sql[1]) : v[1]]_vars
  /\ [](\A n \in 1..nreq : Cardinality(RowsOfRequest(n)) <= 1)

\* two requests, each of which added its row
C17_Witness ==
  /\ pc = "done"
  /\ nreq = 2
  /\ Cardinality(RowsOfRequest(1)) = 1
  /\ Cardinality(RowsOfRequest(2)) = 1


\* the rows an earlier request wrote for the prompt of the current request
RowsForTopic ==
  {k \in 1..Len(query_history) :
     /\ query_history[k].created_at \in 1..(nreq - 1)
     /\ query_history[k].natural_query = SanitizedTable[topic]}

\* C18, as claimed: learn_from_history gives the generated_sql of the most
\* recent row whose natural_query holds the query and whose execution_result
\* holds no error marker; so a request whose prompt an earlier request
\* saved with a generated statement is handed that statement, and goes on
\* to execute_sql without asking the gateway to generate.
C18_PersistedPairIsReused ==
  (RowsForTopic # {} /\ pc \in {"execute_sql", "collect_feedback", "done"}
     /\ Called("learn_from_history")) =>
    /\ ~Called("gateway_generate")
    /\ \E k \in RowsForTopic : sql_event = query_history[k].generated_sql


AllPrompts == Prompts \cup RouterPrompts

\* the patterns of each list that each prompt matches, tabulated
SqlHits == [p \in AllPrompts |-> MatchingIndexes(sql_patterns, p)]

SafeHits == [p \in AllPrompts |-> MatchingIndexes(safe_prompt_patterns, p)]

SqlIndicator(p) == SqlHits[p] # {}

SafeIndicator(p) == SafeHits[p] # {}

\* the intent was decided by a pattern of sql_patterns, and the prompt is one
\* analyze_prompt_safety refuses neither as malicious nor as too long
SqlByPattern ==
  /\ Called("analyze_prompt_safety")
  /\ intent = Some(<<"sql", "SQL query detected">>)
  /\ ~PromptMatches[topic]
  /\ Len(topic) <= 500

\* C19, as claimed: a prompt matches a pattern of safe_prompt_patterns
\* exactly when it matches a pattern of sql_patterns, so a prompt that
\* analyze_intent took for sql by pattern, and that is neither malicious nor
\* too long, is never refused for holding no safe pattern.
C19_SafeIffSqlIndicator ==
  /\ Called("analyze_intent") => (SafeIndicator(topic) <=> SqlIndicator(topic))
  /\ SqlByPattern => verdicts[1].message # "Query does not contain safe patterns"

\* on every prompt: a safe pattern matches only where an SQL pattern does,
\* and where an SQL pattern matches without a safe one, it is the fourth
\* (sql|query|database) alone
SafeWithinSql ==
  \A p \in AllPrompts :
    /\ SafeIndicator(p) => SqlIndicator(p)
    /\ (SqlIndicator(p) /\ ~SafeIndicator(p)) => SqlHits[p] = {4}

\* C19, amended: safe_prompt_patterns are four of the five families of
\* sql_patterns, all but sql|query|database. A prompt that matches a safe
\* pattern matches an SQL pattern, but not the other way round: a prompt
\* whose only SQL indicator is sql, query or database is taken for sql by
\* pattern and then refused by analyze_prompt_safety for holding no safe
\* pattern; with any other SQL indicator it is not refused for that.
C19_SafeFamiliesWithinSql ==
  /\ SafeWithinSql
  /\ SqlByPattern =>
       /\ verdicts[1].is_safe <=> SafeIndicator(topic)
       /\ ~SafeIndicator(topic) =>
            /\ SqlHits[topic] = {4}
            /\ verdicts[1].message = "Query does not contain safe patterns"
            /\ sql_event = Some(PromptSentinel)

\* a prompt with the word database alone was taken for sql and refused
C19_Witness ==
  /\ topic = "query the database"
  /\ pc = "done"
  /\ verdicts[1].message = "Query does not contain safe patterns"


\* the steps a request can take from one stage to the next
StageSteps ==
  { <<"idle", "determine_intent">>, <<"done", "determine_intent">>,
    <<"raised", "determine_intent">>,
    <<"determine_intent", "done">>, <<"determine_intent", "generate_sql">>,
    <<"determine_intent", "raised">>,
    <<"generate_sql", "execute_sql">>, <<"generate_sql", "raised">>,
    <<"execute_sql", "collect_feedback">>,
    <<"collect_feedback", "done">>, <<"collect_feedback", "raised">> }

\* the call that opens each stage, in the order of the stages
StageCalls ==
  <<"analyze_intent", "analyze_prompt_safety", "cursor_execute", "gateway_feedback">>

Positions(event) == {k \in 1..Len(trace) : trace[k] = event}

\* C20: a request goes from the intent decision either to the deflection or
\* through generate_sql, execute_sql and collect_feedback, in this order.
\* Each stage runs at most once, a stage runs only when the one before it
\* has given its event, and the one result string appears when the request
\* reaches its end and at no other point.
C20_StagesInOrder ==
  /\ [][pc' # pc => <<pc, pc'>> \in StageSteps]_vars
  /\ [](\A i \in 1..Len(StageCalls) :
          /\ Cardinality(Positions(StageCalls[i])) <= 1
          /\ \A j \in 1..Len(StageCalls) :
               (i < j /\ Called(StageCalls[j])) =>
                 /\ Called(StageCalls[i])
                 /\ \A a \in Positions(StageCalls[i]), b \in Positions(StageCalls[j]) : a < b)
  /\ [](/\ Called("analyze_prompt_safety") => intent # None /\ intent[1][1] = "sql"
        /\ Called("cursor_execute") => sql_event # None
        /\ Called("gateway_feedback") => execution # None
        /\ pc = "generate_sql" => (sql_event = None /\ execution = None)
        /\ pc = "execute_sql" => (sql_event # None /\ execution = None)
        /\ pc = "collect_feedback" => execution # None)
  /\ [](result # None <=> pc = "done")
  /\ [][result' # result => (result = None /\ pc' = "done") \/ (result' = None /\ pc = "done")]_vars

\* a request went through all four stages to its end
C20_Witness ==
  /\ pc = "done"
  /\ \A i \in 1..Len(StageCalls) : Called(StageCalls[i])
  /\ nreq = 2


\* the characters of s that are not in drop, in order
RECURSIVE Without(_, _)
Without(s, drop) ==
  IF s = "" THEN ""
  ELSE (IF CharAt(s, 1) \in drop THEN "" ELSE CharAt(s, 1)) \o Without(Rest(s, 2), drop)

Count(s, p) == Cardinality(Occurrences(s, p))

\* the calls of generate_sql that work with the sanitized prompt
QueryCalls == {"schema_fetch", "learn_from_history", "gateway_generate", "history_insert"}

\* generate_sql holds a sanitized prompt exactly when the prompt passed
\* analyze_prompt_safety, so before the history is searched, the gateway is
\* asked or the row is written; the row written has it as natural_query
SanitizedBeforeUse ==
  /\ (\E e \in QueryCalls : Called(e)) => sanitized # None
  /\ (pc \notin {"sanitize_input", "returned"} /\ sanitized # None) =>
       /\ Len(verdicts) >= 1 /\ verdicts[1].check = "prompt" /\ verdicts[1].is_safe
       /\ Called("schema_fetch")
  /\ \A k \in RowsOfRequest(nreq) :
       nreq >= 1 => (sanitized # None /\ query_history[k].natural_query = sanitized[1])

\* C21, as claimed: what sanitize_input returns has every quote of the input
\* doubled and holds no semicolon and no comment marker, neither a dash pair
\* nor a block comment marker; and generate_sql sanitizes the prompt before
\* it searches the history, asks the gateway and writes the row.
C21_SanitizeStripsEveryMarker ==
  /\ sanitized # None =>
       /\ Count(sanitized[1], "'") = 2 * Count(topic, "'")
       /\ ~Contains(sanitized[1], ";")
       /\ ~Contains(sanitized[1], "--")
       /\ ~Contains(sanitized[1], "/*")
       /\ ~Contains(sanitized[1], "*/")
  /\ SanitizedBeforeUse

\* C21, as the code has it: what sanitize_input returns has every quote of
\* the input doubled and holds no semicolon and no dash pair; apart from the
\* semicolons and dashes taken out and the quotes doubled it is the input,
\* so the block comment markers stay, and taking a semicolon out can even
\* bring one together; and generate_sql sanitizes the prompt before it
\* searches the history, asks the gateway and writes the row.
C21_SanitizeStripsSemicolonsAndDashPairs ==
  /\ sanitized # None =>
       /\ Count(sanitized[1], "'") = 2 * Count(topic, "'")
       /\ ~Contains(sanitized[1], ";")
       /\ ~Contains(sanitized[1], "--")
       /\ Without(replace(sanitized[1], "''", "'"), {"-"}) = Without(topic, {";", "-"})
       /\ Count(sanitized[1], "-") <= Count(topic, "-")
       /\ (~Contains(topic, ";") /\ ~Contains(topic, "--")) =>
            sanitized[1] = replace(topic, "'", "''")
  /\ SanitizedBeforeUse

\* a quote doubled and a semicolon taken out next to a block comment marker
\* that stays
C21_Witness ==
  /\ pc = "returned"
  /\ topic = "';/*"
  /\ sanitized = Some("''/*")


\* the intent was decided by the gateway's reply, as sql
SqlByGateway == intent = Some(<<"sql", "LLM analysis, SQL query detected">>)

\* C22: a prompt that generate_sql takes past analyze_prompt_safety, to the
\* schema, the history, the gateway or the INSERT, matched a pattern of
\* sql_patterns in analyze_intent, which decided without the gateway: a safe
\* pattern matches only where an SQL pattern does. A prompt that analyze_intent
\* took for sql on the gateway's reply alone matches no SQL pattern, and
\* analyze_prompt_safety refuses it, as malicious or for holding no safe
\* pattern: generate_sql answers with the sentinel, asks the gateway for no
\* statement and writes no row.
C22_GatewaySqlNeverGenerates ==
  /\ \A p \in AllPrompts : SafeHits[p] # {} => SqlHits[p] # {}
  /\ ((\E e \in QueryCalls : Called(e)) \/ (nreq >= 1 /\ RowsOfRequest(nreq) # {})) =>
       /\ SqlHits[topic] # {}
       /\ intent = Some(<<"sql", "SQL query detected">>)
       /\ ~Called("gateway_intent")
  /\ SqlByGateway =>
       /\ SqlHits[topic] = {}
       /\ Called("gateway_intent")
       /\ \A e \in QueryCalls : ~Called(e)
       /\ RowsOfRequest(nreq) = {}
       /\ sanitized = None
       /\ pc # "generate_sql" =>
            /\ Called("analyze_prompt_safety")
            /\ ~verdicts[1].is_safe
            /\ \/ PromptMatches[topic]
               \/ verdicts[1].message = "Query does not contain safe patterns"
            /\ sql_event = Some(PromptSentinel)

\* a prompt with no SQL pattern, taken for sql on the gateway's reply, was
\* refused for holding no safe pattern and the request went on to its end
C22_Witness ==
  /\ SqlByGateway
  /\ topic = "tell me more"
  /\ pc = "done"
  /\ verdicts[1].message = "Query does not contain safe patterns"
  /\ sql_event = Some(PromptSentinel)

====
